---------------------------- MODULE Spec2Model ----------------------------
(***************************************************************************)
(* Model of scripts/generate_screenshot.py: main() reads a transcript,     *)
(* prefixes the first three lines with the prompt, measures every          *)
(* displayed line, groups the lines greedily into height-bounded parts and *)
(* draws and saves one image per part.                                     *)
(*                                                                         *)
(* Text is a sequence of characters.  The font backend is the environment: *)
(* font_bbox[i] is the height textbbox returns for displayed line i; any   *)
(* assignment of heights is allowed.  Horizontal extents (max_width,       *)
(* img_width, prompt_width) never influence pagination or the vertical     *)
(* draw position and are left out.  current_line_index, part_start_index   *)
(* and the enumerate index are 0-based as in the source; sequences are     *)
(* 1-based, so line k of the source is element k + 1 here.                 *)
(***************************************************************************)
EXTENDS Integers, Sequences, FiniteSets

\* ---- configuration (generate_screenshot.py:10-15) ----
LINE_SPACING == 5
PADDING == 20
MAX_IMAGE_HEIGHT == 800
PROMPT == <<"$", " ">>
TEXT_COLOR == "#E5E9F0"
PROMPT_COLOR == "#A3BE8C"
\* number of leading lines that get the prompt (line 57: if i < 3)
PromptLines == 3

\* ---- bounds of the checked inputs ----
MaxLines == 4
\* raw line texts: an ordinary line, and a line that itself begins with "$ "
RawTexts == { <<"a">>, <<"$", " ", "a">> }
\* heights the font backend may report: two of 380 share a part (790 <= 800),
\* 770 fits alone with its spacing (795), 810 is taller than a whole image
Heights == {380, 770, 810}

\* INPUT_FILE as open() finds it: absent, or present with its lines
NoFile == [exists |-> FALSE, content |-> <<>>]
File(ls) == [exists |-> TRUE, content |-> ls]

VARIABLES
  pc,                      \* position in main()
  input_file,              \* environment: INPUT_FILE, absent or with its lines
  font_bbox,               \* environment: height measured for displayed line i
  lines,                   \* lines (line 49)
  styled_lines,            \* styled_lines (lines 55-60)
  line_heights,            \* line_heights (lines 67-71)
  part_number,             \* part_number (line 76)
  current_line_index,      \* current_line_index (line 77)
  lines_for_this_part,     \* lines_for_this_part (line 80)
  part_height_calculator,  \* part_height_calculator (line 81)
  part_start_index,        \* part_start_index (line 83)
  y_text,                  \* y_text (line 102)
  draw_i,                  \* i of enumerate(lines_for_this_part) (line 103)
  drawn,                   \* draw.text calls made on the current image
  images,                  \* the image files saved so far, in order
  stderr,                  \* diagnostics printed to sys.stderr
  exit_status              \* process exit status, -1 while running

vars == << pc, input_file, font_bbox, lines, styled_lines, line_heights,
           part_number, current_line_index, lines_for_this_part,
           part_height_calculator, part_start_index, y_text, draw_i, drawn,
           images, stderr, exit_status >>

\* ---- pure helpers ----

\* str.startswith (line 106)
StartsWith(s, p) == Len(s) >= Len(p) /\ SubSeq(s, 1, Len(p)) = p

\* line[len(PROMPT):] (line 109)
AfterPrompt(s) == SubSeq(s, Len(PROMPT) + 1, Len(s))

\* lines 57-60: the displayed text of raw line `line` at 0-based index i
Styled(i, line) == IF i < PromptLines THEN PROMPT \o line ELSE line

\* all sequences over S of length 0..n
SeqsUpTo(S, n) == UNION { [1..k -> S] : k \in 0..n }

\* ---- initial states ----

InitLocals ==
  /\ pc = "read"
  /\ lines = <<>>
  /\ styled_lines = <<>>
  /\ line_heights = <<>>
  /\ part_number = 0
  /\ current_line_index = 0
  /\ lines_for_this_part = <<>>
  /\ part_height_calculator = 0
  /\ part_start_index = 0
  /\ y_text = 0
  /\ draw_i = 0
  /\ drawn = <<>>
  /\ images = <<>>
  /\ stderr = <<>>
  /\ exit_status = -1

Init ==
  /\ input_file \in {NoFile} \cup { File(ls) : ls \in SeqsUpTo(RawTexts, MaxLines) }
  /\ font_bbox \in [1..Len(input_file.content) -> Heights]
  /\ InitLocals

\* the 100-line scenario: identical lines, each measuring height 20
InitScenario ==
  /\ input_file \in {NoFile, File([i \in 1..100 |-> <<"a">>])}
  /\ font_bbox = [i \in 1..Len(input_file.content) |-> 20]
  /\ InitLocals

\* ---- main(), lines 47-52: reading the transcript ----

ReadInput ==
  /\ pc = "read"
  /\ input_file.exists
  /\ lines' = input_file.content
  /\ pc' = "style"
  /\ UNCHANGED << input_file, font_bbox, styled_lines, line_heights,
                  part_number, current_line_index, lines_for_this_part,
                  part_height_calculator, part_start_index, y_text, draw_i,
                  drawn, images, stderr, exit_status >>

\* a handler that swallows the error and goes on with no lines
InputNotFoundSwallowed ==
  /\ pc = "read"
  /\ ~input_file.exists
  /\ stderr' = Append(stderr, "Error: Input file not found.")
  /\ lines' = <<>>
  /\ pc' = "style"
  /\ UNCHANGED << input_file, font_bbox, styled_lines, line_heights,
                  part_number, current_line_index, lines_for_this_part,
                  part_height_calculator, part_start_index, y_text, draw_i,
                  drawn, images, exit_status >>

InputNotFound ==
  /\ pc = "read"
  /\ ~input_file.exists
  /\ stderr' = Append(stderr, "Error: Input file not found.")
  /\ exit_status' = 1
  /\ pc' = "exit"
  /\ UNCHANGED << input_file, font_bbox, lines, styled_lines, line_heights,
                  part_number, current_line_index, lines_for_this_part,
                  part_height_calculator, part_start_index, y_text, draw_i,
                  drawn, images >>

\* ---- lines 55-60: prompt prefixing ----

StyleLines ==
  /\ pc = "style"
  /\ styled_lines' = [k \in 1..Len(lines) |-> Styled(k - 1, lines[k])]
  /\ pc' = "measure"
  /\ UNCHANGED << input_file, font_bbox, lines, line_heights, part_number,
                  current_line_index, lines_for_this_part,
                  part_height_calculator, part_start_index, y_text, draw_i,
                  drawn, images, stderr, exit_status >>

\* ---- lines 66-77: measuring, then part_number = 1, current_line_index = 0 ----

MeasureLines ==
  /\ pc = "measure"
  /\ line_heights' = [k \in 1..Len(styled_lines) |-> font_bbox[k]]
  /\ part_number' = 1
  /\ current_line_index' = 0
  /\ pc' = "outer"
  /\ UNCHANGED << input_file, font_bbox, lines, styled_lines,
                  lines_for_this_part, part_height_calculator,
                  part_start_index, y_text, draw_i, drawn, images, stderr,
                  exit_status >>

\* ---- lines 79-95: pagination ----

\* line 84, mutated: the last line is never considered
InnerLoopCondOffByOne(idx) == idx < Len(styled_lines) - 1

\* line 84: while current_line_index < len(styled_lines)
InnerLoopCond(idx) == idx < Len(styled_lines)

\* line 85: line_h = line_heights[current_line_index] + LINE_SPACING
LineH(idx) == line_heights[idx + 1] + LINE_SPACING

\* line 88 without the "and lines_for_this_part" escape clause
ExceedsNoEscape(h, line_h, part) == h + line_h > MAX_IMAGE_HEIGHT

\* line 88 with the bottom padding counted in the test
ExceedsWithBottomPadding(h, line_h, part) ==
  h + line_h + PADDING > MAX_IMAGE_HEIGHT /\ part # <<>>

\* line 88: part_height_calculator + line_h > MAX_IMAGE_HEIGHT and lines_for_this_part
Exceeds(h, line_h, part) == h + line_h > MAX_IMAGE_HEIGHT /\ part # <<>>

\* line 92, mutated: indexes by the part's first line
PartLineFromStart(idx) == styled_lines[part_start_index + 1]

\* line 92: styled_lines[current_line_index]
PartLine(idx) == styled_lines[idx + 1]

\* line 95 left out: no bottom padding
FinalHeightNoBottom(h) == h

\* line 95: part_height_calculator += PADDING
FinalHeight(h) == h + PADDING

\* lines 79-83: the outer loop is entered for a new part.  In the source
\* part_number never exceeds the number of lines; the cap one above that
\* keeps the state space finite when a loop fails to make progress.
StartPart ==
  /\ pc = "outer"
  /\ current_line_index < Len(styled_lines)
  /\ part_number <= Len(styled_lines) + 1
  /\ lines_for_this_part' = <<>>
  /\ part_height_calculator' = PADDING
  /\ part_start_index' = current_line_index
  /\ pc' = "inner"
  /\ UNCHANGED << input_file, font_bbox, lines, styled_lines, line_heights,
                  part_number, current_line_index, y_text, draw_i, drawn,
                  images, stderr, exit_status >>

\* lines 84-93: one iteration of the inner loop that does not break
AddLine ==
  /\ pc = "inner"
  /\ InnerLoopCond(current_line_index)
  /\ ~Exceeds(part_height_calculator, LineH(current_line_index),
              lines_for_this_part)
  /\ part_height_calculator' = part_height_calculator + LineH(current_line_index)
  /\ lines_for_this_part' =
       Append(lines_for_this_part, PartLine(current_line_index))
  /\ current_line_index' = current_line_index + 1
  /\ UNCHANGED << pc, input_file, font_bbox, lines, styled_lines,
                  line_heights, part_number, part_start_index, y_text,
                  draw_i, drawn, images, stderr, exit_status >>

\* lines 84/88-89, 95-102: the inner loop ends (exhausted or break), the
\* bottom padding is added, the image is created and drawing starts
ClosePart ==
  /\ pc = "inner"
  /\ \/ ~InnerLoopCond(current_line_index)
     \/ /\ InnerLoopCond(current_line_index)
        /\ Exceeds(part_height_calculator, LineH(current_line_index),
                   lines_for_this_part)
  /\ part_height_calculator' = FinalHeight(part_height_calculator)
  /\ y_text' = PADDING
  /\ draw_i' = 0
  /\ drawn' = <<>>
  /\ pc' = "draw"
  /\ UNCHANGED << input_file, font_bbox, lines, styled_lines, line_heights,
                  part_number, current_line_index, lines_for_this_part,
                  part_start_index, images, stderr, exit_status >>

\* ---- lines 102-113: drawing ----

\* line 113, mutated: indexes the height table by the index within the part
DrawAdvanceLocalIndex(start, i) == line_heights[i + 1] + LINE_SPACING

\* lines 104, 113: line_heights[part_start_index + i] + LINE_SPACING
DrawAdvance(start, i) == line_heights[start + i + 1] + LINE_SPACING

\* lines 106-111: the draw.text calls for one line, as (text, fill) pairs
Segments(line) ==
  IF StartsWith(line, PROMPT)
    THEN << [text |-> PROMPT, fill |-> PROMPT_COLOR],
            [text |-> AfterPrompt(line), fill |-> TEXT_COLOR] >>
    ELSE << [text |-> line, fill |-> TEXT_COLOR] >>

DrawLine ==
  /\ pc = "draw"
  /\ draw_i < Len(lines_for_this_part)
  /\ drawn' = Append(drawn,
                [index |-> part_start_index + draw_i,
                 y |-> y_text,
                 segments |-> Segments(lines_for_this_part[draw_i + 1])])
  /\ y_text' = y_text + DrawAdvance(part_start_index, draw_i)
  /\ draw_i' = draw_i + 1
  /\ UNCHANGED << pc, input_file, font_bbox, lines, styled_lines,
                  line_heights, part_number, current_line_index,
                  lines_for_this_part, part_height_calculator,
                  part_start_index, images, stderr, exit_status >>

\* ---- lines 115-120: saving the part ----

SavePart ==
  /\ pc = "draw"
  /\ draw_i = Len(lines_for_this_part)
  /\ images' = Append(images,
                 [part_number |-> part_number,
                  height |-> part_height_calculator,
                  start |-> part_start_index,
                  lines |-> lines_for_this_part,
                  drawn |-> drawn,
                  y_end |-> y_text])
  /\ part_number' = part_number + 1
  /\ pc' = "outer"
  /\ UNCHANGED << input_file, font_bbox, lines, styled_lines, line_heights,
                  current_line_index, lines_for_this_part,
                  part_height_calculator, part_start_index, y_text, draw_i,
                  drawn, stderr, exit_status >>

\* line 79 false: main() returns
Finish ==
  /\ pc = "outer"
  /\ ~(current_line_index < Len(styled_lines))
  /\ exit_status' = 0
  /\ pc' = "done"
  /\ UNCHANGED << input_file, font_bbox, lines, styled_lines, line_heights,
                  part_number, current_line_index, lines_for_this_part,
                  part_height_calculator, part_start_index, y_text, draw_i,
                  drawn, images, stderr >>

Next ==
  \/ ReadInput
  \/ InputNotFound
  \/ StyleLines
  \/ MeasureLines
  \/ StartPart
  \/ AddLine
  \/ ClosePart
  \/ DrawLine
  \/ SavePart
  \/ Finish

Spec == Init /\ [][Next]_vars

\* the program is single-threaded and runs each statement to completion
FairSpec == Init /\ [][Next]_vars /\ WF_vars(Next)

SpecScenario == InitScenario /\ [][Next]_vars

\* ======================= properties =======================

\* the lines of the saved images, concatenated in order
RECURSIVE ConcatLines(_)
ConcatLines(imgs) ==
  IF imgs = <<>> THEN <<>>
  ELSE ConcatLines(SubSeq(imgs, 1, Len(imgs) - 1)) \o imgs[Len(imgs)].lines

\* sum of (recorded height + LINE_SPACING) over the count lines from 0-based start
RECURSIVE SumLineH(_, _)
SumLineH(start, count) ==
  IF count = 0 THEN 0
  ELSE SumLineH(start, count - 1)
         + line_heights[start + count] + LINE_SPACING

PageCount(k) == Len(images[k].lines)

\* the lines taken so far into the part being built or drawn
OpenPartLines == IF pc \in {"inner", "draw"} THEN lines_for_this_part ELSE <<>>

\* C1: the saved parts, concatenated in order, are exactly the displayed
\* lines consumed so far, each part is the contiguous range starting at its
\* part_start_index, the ranges follow each other without gap or overlap,
\* and when main() returns the concatenation is all of styled_lines.
C1_PagesPartitionLines ==
  /\ ConcatLines(images) \o OpenPartLines
       = SubSeq(styled_lines, 1, current_line_index)
  /\ \A k \in 1..Len(images) :
       /\ images[k].lines
            = SubSeq(styled_lines, images[k].start + 1,
                     images[k].start + PageCount(k))
       /\ images[k].start
            = IF k = 1 THEN 0 ELSE images[k-1].start + PageCount(k - 1)
  /\ pc = "done" => ConcatLines(images) = styled_lines

C1_Witness ==
  /\ pc = "done"
  /\ Len(images) >= 2
  /\ \E k \in 1..Len(images) : PageCount(k) >= 2 /\ images[k].start > 0

\* C2: a saved image is taller than MAX_IMAGE_HEIGHT only if it holds
\* exactly one line; no part of two or more lines exceeds MAX_IMAGE_HEIGHT.
C2_TotalHeightWithinMax ==
  \A k \in 1..Len(images) :
    images[k].height > MAX_IMAGE_HEIGHT => PageCount(k) = 1

\* C3: a drawn line has a prompt-coloured prefix iff its global index is 0,
\* 1 or 2: those lines are drawn as the prompt in PROMPT_COLOR followed by
\* the remainder in TEXT_COLOR, every other line as one TEXT_COLOR run of
\* its whole text.
C3_PromptColorIffFirstThree ==
  \A k \in 1..Len(images) : \A j \in 1..Len(images[k].drawn) :
    LET d == images[k].drawn[j]
        raw == lines[d.index + 1]
    IN  IF d.index < PromptLines
          THEN d.segments = << [text |-> PROMPT, fill |-> PROMPT_COLOR],
                               [text |-> raw, fill |-> TEXT_COLOR] >>
          ELSE d.segments = << [text |-> raw, fill |-> TEXT_COLOR] >>

\* C4: the 100 lines of height 20 are saved as 4 parts of 30, 30, 30 and 10
\* lines.
C4_ScenarioPageCounts ==
  pc = "done" /\ input_file.exists
    => [k \in 1..Len(images) |-> PageCount(k)] = <<30, 30, 30, 10>>

\* C5: main() always finishes; when it returns after pagination every line
\* has been consumed and at most one part per line was saved.
C5_Terminates ==
  /\ <>(pc \in {"done", "exit"})
  /\ [](pc = "done" => /\ current_line_index = Len(styled_lines)
                       /\ Len(images) <= Len(styled_lines))

C5_Witness ==
  /\ pc = "done"
  /\ Len(styled_lines) >= 2
  /\ \E k \in 1..Len(line_heights) : line_heights[k] > MAX_IMAGE_HEIGHT

\* C6: every saved part holds at least one line, and when the inner loop
\* has ended current_line_index is past part_start_index.
C6_EveryPageNonEmpty ==
  /\ \A k \in 1..Len(images) : PageCount(k) >= 1
  /\ pc = "draw" => /\ lines_for_this_part # <<>>
                    /\ current_line_index >= part_start_index + 1

\* a part whose first candidate line alone overflowed was still given it
C6_Witness ==
  \E k \in 1..Len(images) :
    /\ PageCount(k) = 1
    /\ PADDING + line_heights[images[k].start + 1] + LINE_SPACING
         > MAX_IMAGE_HEIGHT

\* C7: for a one-line input whose height exceeds MAX_IMAGE_HEIGHT - 2*PADDING
\* exactly one image is saved, holding that line, taller than
\* MAX_IMAGE_HEIGHT.
C7_SingleOversizedLine ==
  ( /\ pc = "done"
    /\ Len(styled_lines) = 1
    /\ line_heights[1] > MAX_IMAGE_HEIGHT - 2 * PADDING )
  => /\ Len(images) = 1
     /\ images[1].lines = styled_lines
     /\ images[1].height > MAX_IMAGE_HEIGHT

C7_Witness ==
  /\ pc = "done"
  /\ Len(styled_lines) = 1
  /\ line_heights[1] > MAX_IMAGE_HEIGHT - 2 * PADDING
  /\ line_heights[1] + LINE_SPACING + PADDING <= MAX_IMAGE_HEIGHT

\* C8: with the input file absent main() only reads and exits: a diagnostic
\* is printed, the exit status is non-zero, nothing is styled, measured or
\* paginated, part_number is never assigned and no image is saved.
C8_MissingInputIsFatal ==
  ~input_file.exists =>
    /\ pc \in {"read", "exit"}
    /\ images = <<>>
    /\ part_number = 0
    /\ pc = "exit" => exit_status # 0 /\ exit_status # -1 /\ stderr # <<>>

C8_Witness == ~input_file.exists /\ pc = "exit"

\* C9: in every saved image line j is drawn at PADDING plus the recorded
\* heights and spacings of the part's earlier lines (taken at the global
\* indices part_start_index + i), every line of the part is drawn, and the
\* final y plus PADDING is the image height.
C9_DrawAgreesWithPagination ==
  \A k \in 1..Len(images) :
    /\ Len(images[k].drawn) = PageCount(k)
    /\ \A j \in 1..Len(images[k].drawn) :
         /\ images[k].drawn[j].index = images[k].start + j - 1
         /\ images[k].drawn[j].y = PADDING + SumLineH(images[k].start, j - 1)
    /\ images[k].y_end + PADDING = images[k].height

C9_Witness ==
  \E k \in 1..Len(images) :
    /\ images[k].start > 0
    /\ PageCount(k) >= 2
    /\ line_heights[1] # line_heights[images[k].start + 1]

=============================================================================
